---- MODULE Spec2Model ----
(***************************************************************************)
(* Model of the BidlineBuddy question-answering endpoint                   *)
(* (src/app/api/ask/route.ts, POST).                                       *)
(*                                                                         *)
(* Text is modelled as a sequence of tokens.  Every token stands for one   *)
(* fixed piece of text:                                                    *)
(*   "CT"      the literal  Confidence tag:                                *)
(*   "SP"      one space            "NL"   one line feed                   *)
(*   "High" "Medium" "Low"          the three tag words, as written        *)
(*   "X"       a run of letters without whitespace (for instance  est)     *)
(* and the remaining tokens are the headers and bullets of the two canned  *)
(* answers.  The regular expressions of the handler are translated to      *)
(* operators on such sequences.  Similarities are in hundredths.           *)
(***************************************************************************)
EXTENDS Integers, Sequences, FiniteSets, TLC

VARIABLES pc, body, query, isFdpQuestion, history, historyText, chunks,
          prompt, raw, responses, calls, failure, returnedAt

\* the import and backfill scripts: position, the document's text, chunkText's result
VARIABLES job, pdfText, pieces

\* the blr_chunks table, the rows the backfill selected, the loop counters
\* i and j, the embeddings response awaited last, and the runs that have ended
VARIABLES store, selected, batchStart, rowIdx, embeddingResponse, runs

\* several invocations of POST in flight at once: each one's position, the
\* activation records holding the locals, what each was given by the caller
\* and by the services, each one's response, and whether it ran while
\* another was in flight
VARIABLES cpc, frames, given, replies, overlapped

\* the page: the state of the Home component (question, history, loading,
\* error), the fetches to /api/ask not yet completed, and the pairs answered
\* so far
VARIABLES question, clientHistory, loading, clientError, inflight, answered

\* parseAnswer: the answer text it is given and the ParsedAnswer it returns
VARIABLES answerText, parsed

postVars == <<pc, body, query, isFdpQuestion, history, historyText, chunks,
              prompt, raw, responses, calls, failure, returnedAt>>
scriptVars == <<job, pdfText, pieces, store, selected, batchStart, rowIdx,
                embeddingResponse, runs>>
concVars == <<cpc, frames, given, replies, overlapped>>
clientVars == <<question, clientHistory, loading, clientError, inflight, answered>>
parseVars == <<answerText, parsed>>
otherVars == <<scriptVars, concVars, clientVars, parseVars>>

vars == <<postVars, scriptVars, concVars, clientVars, parseVars>>

\* ------------------------------------------------------------------ bounds
MaxChunks == 2
MaxRawLen == 2
MaxFmtLen == 6
MaxSections == 4
MaxContextChunks == 2
MaxHistory == 4
MaxTextLen == 7
MaxChars == 4
BatchSize == 2
MaxRuns == 2
NumRequests == 2
MaxQueryWords == 3
MaxPairs == 4

\* ------------------------------------------------------- text operators
GenTokens == {"CT", "SP", "NL", "High", "Medium", "Low", "X"}

SeqsUpTo(S, n) == UNION {[1..k -> S] : k \in 0..n}

IsSpace(t) == t \in {"SP", "NL"}

\* String.prototype.toLowerCase on one token
ToLowerCase(t) ==
  CASE t = "CT" -> "ct"
    [] t = "High" -> "high"
    [] t = "Medium" -> "medium"
    [] t = "Low" -> "low"
    [] t = "FDP" -> "fdp"
    [] t = "Flight" -> "flight"
    [] OTHER -> t

\* first index >= k of s that holds no whitespace (Len(s) + 1 when none): \s*
RECURSIVE SkipSpace(_, _)
SkipSpace(s, k) ==
  IF k > Len(s) THEN Len(s) + 1
  ELSE IF IsSpace(s[k]) THEN SkipSpace(s, k + 1) ELSE k

\* /Confidence tag:\s*(High|Medium|Low)/i matches starting at index i
TagMatchesAt(s, i) ==
  /\ ToLowerCase(s[i]) = "ct"
  /\ SkipSpace(s, i + 1) <= Len(s)
  /\ ToLowerCase(s[SkipSpace(s, i + 1)]) \in {"high", "medium", "low"}

\* raw.match(/Confidence tag:\s*(High|Medium|Low)/i): the captured group of
\* the leftmost match, "" when there is no match
TagMatch(s) ==
  LET hits == {i \in 1..Len(s) : TagMatchesAt(s, i)}
  IN  IF hits = {} THEN ""
      ELSE LET i == CHOOSE h \in hits : \A g \in hits : h <= g
           IN  s[SkipSpace(s, i + 1)]

\* /Confidence tag:.*$/i matches starting at index i: . stops at a line feed
\* and $ (no m flag) is the end of the whole text
StripMatchesAt(s, i) ==
  /\ ToLowerCase(s[i]) = "ct"
  /\ \A k \in (i + 1)..Len(s) : s[k] # "NL"

\* text.replace(/Confidence tag:.*$/i, "")
StripTag(s) ==
  LET hits == {i \in 1..Len(s) : StripMatchesAt(s, i)}
  IN  IF hits = {} THEN s
      ELSE LET i == CHOOSE h \in hits : \A g \in hits : h <= g
           IN  SubSeq(s, 1, i - 1)

\* String.prototype.trim
RECURSIVE TrimEnd(_)
TrimEnd(s) ==
  IF s # <<>> /\ IsSpace(s[Len(s)]) THEN TrimEnd(SubSeq(s, 1, Len(s) - 1))
  ELSE s

Trim(s) == LET k == SkipSpace(s, 1) IN TrimEnd(SubSeq(s, k, Len(s)))

\* lines.join("\n")
RECURSIVE JoinLines(_)
JoinLines(lines) ==
  IF lines = <<>> THEN <<>>
  ELSE IF Len(lines) = 1 THEN lines[1]
  ELSE lines[1] \o <<"NL">> \o JoinLines(Tail(lines))

\* ------------------------------------------------------- request inputs
\* a JSON value as far as the handler looks at it: its typeof, whether it
\* is truthy, its text when it is a string, and whether String(v) can turn
\* it into a primitive (an object whose toString and valueOf yield no
\* primitive, such as {"toString": 1}, makes String(v) throw a TypeError)
Undefined == [type |-> "undefined", truthy |-> FALSE, text |-> <<>>, prim |-> TRUE]
JsNull == [type |-> "object", truthy |-> FALSE, text |-> <<>>, prim |-> TRUE]
JsZero == [type |-> "number", truthy |-> FALSE, text |-> <<"0">>, prim |-> TRUE]
JsSeven == [type |-> "number", truthy |-> TRUE, text |-> <<"7">>, prim |-> TRUE]
JsObject == [type |-> "object", truthy |-> TRUE, text |-> <<"[object Object]">>, prim |-> TRUE]
JsNoPrimitive == [type |-> "object", truthy |-> TRUE, text |-> <<>>, prim |-> FALSE]
JsString(words) == [type |-> "string", truthy |-> words # <<>>, text |-> words, prim |-> TRUE]

\* query texts, as sequences of words separated by single spaces
QueryTexts == {<<>>, <<"minimum", "rest">>, <<"max", "FDP">>}

QueryInputs ==
  {Undefined, JsNull, JsZero, JsSeven, JsObject, JsNoPrimitive}
    \cup {JsString(w) : w \in QueryTexts}

\* one entry of body.history: JSON null, or an object whose question and
\* answer are strings or not
NullEntry == [isNull |-> TRUE, question |-> Undefined, answer |-> Undefined]
PairEntry(q, a) == [isNull |-> FALSE, question |-> q, answer |-> a]

HistoryInputs ==
  { [isArray |-> FALSE, items |-> <<>>],
    [isArray |-> TRUE, items |-> <<>>],
    [isArray |-> TRUE, items |-> <<NullEntry>>],
    [isArray |-> TRUE,
     items |-> <<PairEntry(JsString(<<"q1">>), JsSeven)>>] }

\* the parsed body: JSON null, or an object with query and history
NullBody == [isNull |-> TRUE, query |-> Undefined,
             history |-> [isArray |-> FALSE, items |-> <<>>]]

Bodies ==
  {NullBody} \cup
  {[isNull |-> FALSE, query |-> q, history |-> h] :
     q \in QueryInputs, h \in HistoryInputs}

\* errors an awaited call can reject with, as the catch block looks at
\* them: err.status and err.code
TypeError == [status |-> 0, code |-> ""]
ApiErrors ==
  { [status |-> 429, code |-> "rate_limit_exceeded"],
    [status |-> 429, code |-> "insufficient_quota"],
    [status |-> 500, code |-> "server_error"] }

\* rows of match_blr_chunks: similarity in hundredths, NoSim when the row
\* carries no numeric similarity
NoSim == -1
Sims == {NoSim, 49, 50, 60}
\* a text of the corpus is named by id; [id, len] stands for its first len
\* characters.  content is such a text, or not a string at all
TextOf(id, len) == [isString |-> TRUE, id |-> id, len |-> len]
NotAString == [isString |-> FALSE, id |-> "", len |-> 0]

RichChunk(s, source, page, section, content) ==
  [similarity |-> s, source |-> source, page |-> page, section |-> section,
   content |-> content]

\* a row as the import script writes it: fixed source, no page, no section
Chunk(s) == RichChunk(s, "Bidline Rules Feb 2025", "", "", TextOf("c", 1600))
ChunkLists == SeqsUpTo({Chunk(s) : s \in Sims}, MaxChunks)

\* what supabase.rpc resolves to: {data, error}
StoreResults ==
  {[error |-> TRUE, isNull |-> TRUE, rows |-> <<>>],
   [error |-> FALSE, isNull |-> TRUE, rows |-> <<>>]}
    \cup {[error |-> FALSE, isNull |-> FALSE, rows |-> r] : r \in ChunkLists}

\* completion.choices[0].message.content: null or text
Completions ==
  {[isNull |-> TRUE, content |-> <<>>]}
    \cup {[isNull |-> FALSE, content |-> c] : c \in SeqsUpTo(GenTokens, MaxRawLen)}

\* ------------------------------------------------------- handler pieces
\* /fdp|flight duty period|maximum duty/i.test(text)
IsFdpText(words) ==
  \/ \E i \in 1..Len(words) : ToLowerCase(words[i]) = "fdp"
  \/ \E i \in 1..(Len(words) - 2) :
       /\ ToLowerCase(words[i]) = "flight"
       /\ ToLowerCase(words[i + 1]) = "duty"
       /\ ToLowerCase(words[i + 2]) = "period"
  \/ \E i \in 1..(Len(words) - 1) :
       /\ ToLowerCase(words[i]) = "maximum"
       /\ ToLowerCase(words[i + 1]) = "duty"

\* typeof query === "string" ? query : String(query ?? "")
QueryAsText(q) ==
  IF q.type = "string" THEN q.text
  ELSE IF q = Undefined \/ q = JsNull THEN <<>>
  ELSE q.text

\* does evaluating String(query ?? "") throw
QueryTextThrows(q) == q.type # "string" /\ ~q.prim

MatchThreshold_flat(fdp) == 55
MatchThreshold(fdp) == IF fdp THEN 45 ELSE 55
MatchCount == 10
EffectiveMaxSimThreshold_alwaysRelaxed(fdp) == 50
EffectiveMaxSimThreshold(fdp) == IF fdp THEN 50 ELSE 60

\* history.slice(-3)
Recent_oldest(h) == IF Len(h) > 3 THEN SubSeq(h, 1, 3) ELSE h
Recent(h) == IF Len(h) > 3 THEN SubSeq(h, Len(h) - 2, Len(h)) ELSE h

NoQuestionText == <<"(no question text)">>
NoAnswerText == <<"(no answer text)">>

\* the map callback of historyText: Previous Q<n>: q / Previous A<n>: a
HistoryLine(h, idx) ==
  [n |-> idx,
   q |-> IF h.question.type = "string" THEN h.question.text ELSE NoQuestionText,
   a |-> IF h.answer.type = "string" THEN h.answer.text ELSE NoAnswerText]

\* reading h.question of a null entry throws a TypeError
HistoryThrows(h) == \E i \in 1..Len(Recent(h)) : Recent(h)[i].isNull

HistoryText(h) == [i \in 1..Len(Recent(h)) |-> HistoryLine(Recent(h)[i], i)]

\* sims / maxSim
RECURSIVE MaxOf(_)
MaxOf(s) ==
  IF s = <<>> THEN 0
  ELSE IF Len(s) = 1 THEN s[1]
  ELSE LET m == MaxOf(Tail(s)) IN IF s[1] > m THEN s[1] ELSE m

NumericSims(rows) ==
  SelectSeq([i \in 1..Len(rows) |-> rows[i].similarity], LAMBDA v : v # NoSim)

MaxSim_noneIsTop(rows) ==
  IF Len(NumericSims(rows)) > 0 THEN MaxOf(NumericSims(rows)) ELSE 100
MaxSim(rows) ==
  IF Len(NumericSims(rows)) > 0 THEN MaxOf(NumericSims(rows)) ELSE 0

\* if (maxSim < effectiveMaxSimThreshold)
IsWeak_inclusive(maxSim, threshold) == maxSim <= threshold
IsWeak(maxSim, threshold) == maxSim < threshold

\* if (!chunks || chunks.length === 0)
NothingCameBack_emptyOnly(res) == ~res.isNull /\ Len(res.rows) = 0
NothingCameBack(res) == res.isNull \/ Len(res.rows) = 0

\* the order of the checks after the store query, lines 57-105: which
\* return statement, if any, the handler takes
StoreDecision_chunksFirst(res, fdp) ==
  IF NothingCameBack(res) THEN "noCoverage"
  ELSE IF res.error THEN "storeError"
  ELSE IF IsWeak(MaxSim(res.rows), EffectiveMaxSimThreshold(fdp)) THEN "weakCoverage"
  ELSE "generate"
StoreDecision(res, fdp) ==
  IF res.error THEN "storeError"
  ELSE IF NothingCameBack(res) THEN "noCoverage"
  ELSE IF IsWeak(MaxSim(res.rows), EffectiveMaxSimThreshold(fdp)) THEN "weakCoverage"
  ELSE "generate"

\* `[${idx + 1}]` for the chunk at position i = idx + 1 of the list
LabelNumber_zeroBased(i) == i - 1
LabelNumber(i) == i

\* labelParts after .filter(Boolean): the index, the source or "Unknown
\* source", the page in parentheses, the section after a dash; empty parts
\* are dropped, and the parts are joined by single spaces
LabelParts(c, i) ==
  SelectSeq(
    << [kind |-> "index", n |-> LabelNumber(i), text |-> ""],
       [kind |-> "source", n |-> 0,
        text |-> IF c.source # "" THEN c.source ELSE "Unknown source"],
       [kind |-> "page", n |-> 0, text |-> c.page],
       [kind |-> "section", n |-> 0, text |-> c.section] >>,
    LAMBDA p : p.kind = "index" \/ p.text # "")

ContentCap == 1200

\* content.length > 1200 ? content.slice(0, 1200) + " \u2026" : content, with
\* "" for a content that is not a string
TrimmedContent_inclusive(content) ==
  IF ~content.isString THEN [id |-> "", len |-> 0, marker |-> FALSE]
  ELSE IF content.len >= ContentCap
  THEN [id |-> content.id, len |-> ContentCap, marker |-> TRUE]
  ELSE [id |-> content.id, len |-> content.len, marker |-> FALSE]
TrimmedContent(content) ==
  IF ~content.isString THEN [id |-> "", len |-> 0, marker |-> FALSE]
  ELSE IF content.len > ContentCap
  THEN [id |-> content.id, len |-> ContentCap, marker |-> TRUE]
  ELSE [id |-> content.id, len |-> content.len, marker |-> FALSE]

\* contextText: one labelled, trimmed entry per chunk, in list order
ContextText(rows) ==
  [i \in 1..Len(rows) |->
     [label |-> LabelParts(rows[i], i), content |-> TrimmedContent(rows[i].content)]]

NoPrompt == [historyPrefix |-> <<>>, contextText |-> <<>>, query |-> <<>>]
BuildPrompt(hText, rows, q) ==
  [historyPrefix |-> hText, contextText |-> ContextText(rows), query |-> q]

\* the two canned answers, as the arrays of lines of the source
Bullet(t) == <<"DASH", "SP", t>>

NoCoverageLines ==
  << <<"H1">>, Bullet("NC1"), <<>>,
     <<"H2">>, Bullet("NC2"), <<>>,
     <<"H3">>, Bullet("NC3"), <<>>,
     <<"H4">>, Bullet("NC4"), <<>>,
     <<"CT", "SP", "Low">> >>

WeakCoverageLines ==
  << <<"H1">>, Bullet("WC1"), <<>>,
     <<"H2">>, Bullet("WC2"), <<>>,
     <<"H3">>, Bullet("WC3"), Bullet("WC4"), <<>>,
     <<"H4">>, Bullet("WC5"), Bullet("WC6"), <<>>,
     <<"CT", "SP", "Low">> >>

\* fallbackAnswer.replace(/Confidence tag:.*$/i, "").trim()
FallbackAnswer(lines) == Trim(StripTag(JoinLines(lines)))

\* NextResponse.json(...)
Success_numericOnly(answer, rows, tag) ==
  [status |-> 200, answer |-> answer,
   chunks |-> SelectSeq(rows, LAMBDA c : c.similarity # NoSim),
   confidenceTag |-> tag]
Success(answer, rows, tag) ==
  [status |-> 200, answer |-> answer, chunks |-> rows, confidenceTag |-> tag]
Failure(status, message) == [status |-> status, error |-> message]

MissingQuery == "Missing query"
DatabaseFailed == "Database search failed in BidlineBuddy."
QuotaExhausted == "BidlineBuddy cannot contact OpenAI because the API quota is exhausted. Top up or adjust your OpenAI billing, then try again."
UnexpectedError == "Unexpected error in BidlineBuddy API."

\* const confidenceTag = tagMatch ? tagMatch[1].toLowerCase() : "unknown"
ConfidenceTag(text) ==
  IF TagMatch(text) = "" THEN "unknown" ELSE ToLowerCase(TagMatch(text))

\* const answer = raw.replace(/Confidence tag:.*$/i, "").trim()
Answer(text) == Trim(StripTag(text))

\* the catch block
IsQuotaError(err) == err.status = 429 \/ err.code = "insufficient_quota"

CatchResponse(err) ==
  IF IsQuotaError(err) THEN Failure(500, QuotaExhausted)
  ELSE Failure(500, UnexpectedError)

CatchSite(err) == IF IsQuotaError(err) THEN "catchQuota" ELSE "catchGeneric"

\* lines 225-233: the response built from the generator's text
FormatResponse(text, rows) == Success(Answer(text), rows, ConfidenceTag(text))

\* a throw anywhere in the try block ends in the catch block's response
Caught_rethrow(err) ==
  IF IsQuotaError(err)
  THEN /\ pc' = "done"
       /\ responses' = Append(responses, CatchResponse(err))
       /\ returnedAt' = CatchSite(err)
  ELSE /\ pc' = "uncaught"
       /\ responses' = responses
       /\ returnedAt' = "thrown"
Caught(err) ==
  /\ pc' = "done"
  /\ responses' = Append(responses, CatchResponse(err))
  /\ returnedAt' = CatchSite(err)

Return(resp, site) ==
  /\ pc' = "done"
  /\ responses' = Append(responses, resp)
  /\ returnedAt' = site

Call(svc, thr, cnt) == [svc |-> svc, match_threshold |-> thr, match_count |-> cnt]

\* no script is running
ScriptsIdle ==
  /\ job = "idle"
  /\ pdfText = <<>>
  /\ pieces = <<>>
  /\ store = <<>>
  /\ selected = <<>>
  /\ batchStart = 0
  /\ rowIdx = 0
  /\ embeddingResponse = <<>>
  /\ runs = <<>>

\* the invocations of POST
Requests == 1..NumRequests

\* the locals of one invocation (lines 18-30 and 51) before any is assigned
EmptyFrame ==
  [query |-> Undefined, isFdpQuestion |-> FALSE, historyText |-> <<>>, rows |-> <<>>]

\* an awaited result: not there yet, a rejection, or a value
Pending == [state |-> "pending"]
Rejected(err) == [state |-> "rejected", err |-> err]
Resolved(value) == [state |-> "resolved", value |-> value]

NothingGiven ==
  [json |-> Pending, embedding |-> Pending, store |-> Pending, completion |-> Pending]

NoReply == [status |-> 0]

\* no invocation has been made
ConcIdle ==
  /\ cpc = [r \in Requests |-> "idle"]
  /\ frames = [r \in Requests |-> EmptyFrame]
  /\ given = [r \in Requests |-> NothingGiven]
  /\ replies = [r \in Requests |-> NoReply]
  /\ overlapped = [r \in Requests |-> FALSE]

\* the page as first rendered: lines 256-259
NoError == <<>>

\* const result = {tldr: "", rules: [], gaps: [], pragmatic: []}
NothingParsed == [tldr |-> <<>>, rules |-> <<>>, gaps |-> <<>>, pragmatic |-> <<>>]

ClientIdle ==
  /\ question = <<>>
  /\ clientHistory = <<>>
  /\ loading = FALSE
  /\ clientError = NoError
  /\ inflight = <<>>
  /\ answered = <<>>
  /\ answerText = <<>>
  /\ parsed = NothingParsed

OthersIdle == ScriptsIdle /\ ConcIdle /\ ClientIdle

\* ------------------------------------------------------------- the handler
Init ==
  /\ pc = "awaitJson"
  /\ body = NullBody
  /\ OthersIdle
  /\ query = Undefined
  /\ isFdpQuestion = FALSE
  /\ history = <<>>
  /\ historyText = <<>>
  /\ chunks = [isNull |-> TRUE, rows |-> <<>>]
  /\ prompt = NoPrompt
  /\ raw = <<>>
  /\ responses = <<>>
  /\ calls = <<>>
  /\ failure = ""
  /\ returnedAt = ""

\* await req.json() rejects: the body is not JSON
JsonRejects ==
  /\ pc = "awaitJson"
  /\ UNCHANGED <<body, otherVars>>
  /\ Caught(TypeError)
  /\ failure' = "json"
  /\ UNCHANGED <<query, isFdpQuestion, history, historyText, chunks, prompt,
                 raw, calls>>

\* await req.json() resolves: lines 19-47, up to the embedding call
JsonResolves(b) ==
  /\ pc = "awaitJson"
  /\ body' = b
  /\ UNCHANGED otherVars
  /\ query' = b.query
  /\ IF QueryTextThrows(b.query)
     THEN /\ Caught(TypeError)
          /\ failure' = "toString"
          /\ UNCHANGED <<isFdpQuestion, history, historyText, calls>>
     ELSE /\ isFdpQuestion' = IsFdpText(QueryAsText(b.query))
          /\ history' = IF b.history.isArray THEN b.history.items ELSE <<>>
          /\ IF ~b.query.truthy \/ b.query.type # "string"
             THEN /\ Return(Failure(400, MissingQuery), "missingQuery")
                  /\ UNCHANGED <<historyText, calls, failure>>
             ELSE IF HistoryThrows(history')
             THEN /\ Caught(TypeError)
                  /\ failure' = "history"
                  /\ UNCHANGED <<historyText, calls>>
             ELSE /\ historyText' = HistoryText(history')
                  /\ calls' = Append(calls, Call("embed", 0, 0))
                  /\ pc' = "awaitEmbedding"
                  /\ UNCHANGED <<responses, returnedAt, failure>>
  /\ UNCHANGED <<chunks, prompt, raw>>

\* await openai.embeddings.create(...) rejects
EmbeddingRejects(err) ==
  /\ pc = "awaitEmbedding"
  /\ UNCHANGED <<body, otherVars>>
  /\ Caught(err)
  /\ failure' = "embed"
  /\ UNCHANGED <<query, isFdpQuestion, history, historyText, chunks, prompt,
                 raw, calls>>

\* the embedding arrives: lines 48-55, the store query is issued
EmbeddingResolves ==
  /\ pc = "awaitEmbedding"
  /\ UNCHANGED <<body, otherVars>>
  /\ calls' = Append(calls, Call("search", MatchThreshold(isFdpQuestion), MatchCount))
  /\ pc' = "awaitStore"
  /\ UNCHANGED <<query, isFdpQuestion, history, historyText, chunks, prompt,
                 raw, responses, failure, returnedAt>>

\* await supabase.rpc(...) resolves to {data, error}: lines 57-161
StoreResolves(res) ==
  /\ pc = "awaitStore"
  /\ UNCHANGED <<body, otherVars>>
  /\ chunks' = [isNull |-> res.isNull, rows |-> res.rows]
  /\ failure' = IF res.error THEN "store" ELSE failure
  /\ IF StoreDecision(res, isFdpQuestion) = "storeError"
     THEN /\ Return(Failure(500, DatabaseFailed), "storeError")
          /\ UNCHANGED <<prompt, calls>>
     ELSE IF StoreDecision(res, isFdpQuestion) = "noCoverage"
     THEN /\ Return(Success(FallbackAnswer(NoCoverageLines), <<>>, "low"),
                    "noCoverage")
          /\ UNCHANGED <<prompt, calls>>
     ELSE IF StoreDecision(res, isFdpQuestion) = "weakCoverage"
     THEN /\ Return(Success(FallbackAnswer(WeakCoverageLines), res.rows, "low"),
                    "weakCoverage")
          /\ UNCHANGED <<prompt, calls>>
     ELSE /\ prompt' = BuildPrompt(historyText, res.rows, query.text)
          /\ calls' = Append(calls, Call("generate", 0, 0))
          /\ pc' = "awaitCompletion"
          /\ UNCHANGED <<responses, returnedAt>>
  /\ UNCHANGED <<query, isFdpQuestion, history, historyText, raw>>

\* await openai.chat.completions.create(...) rejects
CompletionRejects(err) ==
  /\ pc = "awaitCompletion"
  /\ UNCHANGED <<body, otherVars>>
  /\ Caught(err)
  /\ failure' = "generate"
  /\ UNCHANGED <<query, isFdpQuestion, history, historyText, chunks, prompt,
                 raw, calls>>

\* the completion arrives: lines 225-233
CompletionResolves(completion) ==
  /\ pc = "awaitCompletion"
  /\ UNCHANGED <<body, otherVars>>
  /\ raw' = IF completion.isNull THEN <<>> ELSE completion.content
  /\ Return(FormatResponse(raw', chunks.rows), "generated")
  /\ failure' = failure
  /\ UNCHANGED <<query, isFdpQuestion, history, historyText, chunks, prompt,
                 calls>>

Next ==
  \/ JsonRejects
  \/ \E b \in Bodies : JsonResolves(b)
  \/ \E err \in ApiErrors : EmbeddingRejects(err)
  \/ EmbeddingResolves
  \/ \E res \in StoreResults : StoreResolves(res)
  \/ \E err \in ApiErrors : CompletionRejects(err)
  \/ \E completion \in Completions : CompletionResolves(completion)

Spec == Init /\ [][Next]_vars

\* ------------------------------------------- the response formatter alone
\* generator texts made of section header lines, in any order and number up
\* to MaxSections, followed by a tag line
HeaderTexts ==
  { JoinLines([i \in 1..(Len(hs) + 1) |->
                 IF i <= Len(hs) THEN <<hs[i]>> ELSE <<"CT", "SP", "Low">>]) :
      hs \in SeqsUpTo({"H1", "H2", "H3", "H4"}, MaxSections) }

\* lines 225-233 applied to every text of up to MaxFmtLen tokens and to the
\* header texts
InitFormat ==
  /\ pc = "format"
  /\ body = NullBody
  /\ OthersIdle
  /\ raw \in SeqsUpTo(GenTokens, MaxFmtLen) \cup HeaderTexts
  /\ query = Undefined
  /\ isFdpQuestion = FALSE
  /\ history = <<>>
  /\ historyText = <<>>
  /\ chunks = [isNull |-> FALSE, rows |-> <<>>]
  /\ prompt = NoPrompt
  /\ responses = <<>>
  /\ calls = <<>>
  /\ failure = ""
  /\ returnedAt = ""

Format ==
  /\ pc = "format"
  /\ UNCHANGED <<body, otherVars>>
  /\ Return(FormatResponse(raw, chunks.rows), "generated")
  /\ UNCHANGED <<query, isFdpQuestion, history, historyText, chunks, prompt,
                 raw, calls, failure>>

SpecFormat == InitFormat /\ [][Format]_vars

\* ------------------------------------------------- prompt assembly alone
\* rows with every combination of source, page, section and content
ContentInputs ==
  {NotAString, TextOf("t1", 0), TextOf("t1", 1200), TextOf("t2", 1201)}

RichChunks ==
  {RichChunk(60, s, p, sec, c) :
     s \in {"", "BASC guide"}, p \in {"", "p.104"}, sec \in {"", "3.2"},
     c \in ContentInputs}

\* lines 136-156 applied to every non-empty list of up to MaxContextChunks rows
InitContext ==
  /\ pc = "assemble"
  /\ body = NullBody
  /\ OthersIdle
  /\ chunks \in {[isNull |-> FALSE, rows |-> r] :
                   r \in SeqsUpTo(RichChunks, MaxContextChunks) \ {<<>>}}
  /\ query = JsString(<<"minimum", "rest">>)
  /\ isFdpQuestion = FALSE
  /\ history = <<>>
  /\ historyText = <<>>
  /\ prompt = NoPrompt
  /\ raw = <<>>
  /\ responses = <<>>
  /\ calls = <<>>
  /\ failure = ""
  /\ returnedAt = ""

AssembleContext ==
  /\ pc = "assemble"
  /\ UNCHANGED <<body, otherVars>>
  /\ prompt' = BuildPrompt(historyText, chunks.rows, query.text)
  /\ pc' = "assembled"
  /\ UNCHANGED <<query, isFdpQuestion, history, historyText, chunks, raw,
                 responses, calls, failure, returnedAt>>

SpecContext == InitContext /\ [][AssembleContext]_vars

\* ------------------------------------------- the handler on long histories
\* the handler up to the completion call, for a valid query, every history of
\* up to MaxHistory entries and one qualifying store result
HistoryEntries ==
  { NullEntry,
    PairEntry(JsString(<<"q1">>), JsString(<<"a1">>)),
    PairEntry(JsString(<<"q2">>), JsString(<<"a2">>)),
    PairEntry(JsSeven, JsString(<<"a3">>)) }

HistoryBodies ==
  {[isNull |-> FALSE, query |-> JsString(<<"minimum", "rest">>), history |-> h] :
     h \in {[isArray |-> FALSE, items |-> <<>>]} \cup
           {[isArray |-> TRUE, items |-> s] : s \in SeqsUpTo(HistoryEntries, MaxHistory)}}

NextHistory ==
  \/ \E b \in HistoryBodies : JsonResolves(b)
  \/ EmbeddingResolves
  \/ StoreResolves([error |-> FALSE, isNull |-> FALSE, rows |-> <<Chunk(60)>>])

SpecHistory == Init /\ [][NextHistory]_vars

\* the handler up to the completion call, for every query of up to
\* MaxQueryWords words and store results around the four thresholds
QueryWords == {"FDP", "fdp", "Flight", "duty", "period", "maximum", "rest"}

CategoryBodies ==
  {[isNull |-> FALSE, query |-> JsString(w),
    history |-> [isArray |-> FALSE, items |-> <<>>]] :
     w \in SeqsUpTo(QueryWords, MaxQueryWords)}

CategoryStoreResults ==
  {[error |-> FALSE, isNull |-> FALSE, rows |-> <<Chunk(s)>>] :
     s \in {44, 45, 49, 50, 55, 59, 60}}

NextCategory ==
  \/ \E b \in CategoryBodies : JsonResolves(b)
  \/ EmbeddingResolves
  \/ \E res \in CategoryStoreResults : StoreResolves(res)

SpecCategory == Init /\ [][NextCategory]_vars

\* ------------------------------------------------------------- chunkText
\* the characters of a document: two letters, the space and the line feed
Chars == {"a", "b", "SP", "NL"}

\* text.split(/\n\s*\n/g): the leftmost separator starts at a line feed
\* and, \s* being greedy, runs to the last line feed of the white space
\* that follows it
RECURSIVE SplitParagraphs(_)
SplitParagraphs(t) ==
  LET IsSep(i, j) == /\ t[i] = "NL" /\ t[j] = "NL" /\ i < j
                     /\ \A k \in (i + 1)..(j - 1) : IsSpace(t[k])
      starts == {i \in 1..Len(t) : \E j \in 1..Len(t) : IsSep(i, j)}
  IN  IF starts = {} THEN <<t>>
      ELSE LET i == CHOOSE x \in starts : \A y \in starts : x <= y
               j == CHOOSE x \in 1..Len(t) :
                      IsSep(i, x) /\ \A y \in 1..Len(t) : IsSep(i, y) => y <= x
           IN  <<SubSeq(t, 1, i - 1)>> \o SplitParagraphs(SubSeq(t, j + 1, Len(t)))

\* .map((p) => p.trim()).filter(Boolean)
Paragraphs(t) ==
  SelectSeq([i \in 1..Len(SplitParagraphs(t)) |-> Trim(SplitParagraphs(t)[i])],
            LAMBDA p : p # <<>>)

\* for (let i = 0; i < p.length; i += maxChars) chunks.push(p.slice(i, i + maxChars))
RECURSIVE Slices(_, _)
Slices(p, maxChars) ==
  IF Len(p) <= maxChars THEN <<p>>
  ELSE <<SubSeq(p, 1, maxChars)>> \o Slices(SubSeq(p, maxChars + 1, Len(p)), maxChars)

\* (current + "\n\n" + p).length > maxChars
TooLong_noSeparator(current, p, maxChars) == Len(current \o p) > maxChars
TooLong(current, p, maxChars) == Len(current \o <<"NL", "NL">> \o p) > maxChars

\* current ? [current.trim()] : []
Flush_lost(current) == <<>>
Flush(current) == IF current # <<>> THEN <<Trim(current)>> ELSE <<>>

\* the loop over the paragraphs from the k-th on, and the final push
RECURSIVE ChunkLoop(_, _, _, _, _)
ChunkLoop(paragraphs, k, out, current, maxChars) ==
  IF k > Len(paragraphs) THEN out \o Flush(current)
  ELSE LET p == paragraphs[k]
       IN  IF Len(p) > maxChars
           THEN ChunkLoop(paragraphs, k + 1,
                          out \o Flush(current) \o Slices(p, maxChars), <<>>, maxChars)
           ELSE IF TooLong(current, p, maxChars)
           THEN ChunkLoop(paragraphs, k + 1, out \o Flush(current), p, maxChars)
           ELSE ChunkLoop(paragraphs, k + 1, out,
                          IF current # <<>> THEN current \o <<"NL", "NL">> \o p ELSE p,
                          maxChars)

chunkText(t, maxChars) == ChunkLoop(Paragraphs(t), 1, <<>>, <<>>, maxChars)

\* no request is being handled
HandlerIdle ==
  /\ pc = "idle"
  /\ body = NullBody
  /\ query = Undefined
  /\ isFdpQuestion = FALSE
  /\ history = <<>>
  /\ historyText = <<>>
  /\ chunks = [isNull |-> TRUE, rows |-> <<>>]
  /\ prompt = NoPrompt
  /\ raw = <<>>
  /\ responses = <<>>
  /\ calls = <<>>
  /\ failure = ""
  /\ returnedAt = ""

\* chunkText applied to every text of up to MaxTextLen characters, with
\* maxChars scaled down from 1600 to MaxChars
InitChunk ==
  /\ HandlerIdle
  /\ ConcIdle
  /\ ClientIdle
  /\ job = "chunk"
  /\ pdfText \in SeqsUpTo(Chars, MaxTextLen)
  /\ pieces = <<>>
  /\ store = <<>>
  /\ selected = <<>>
  /\ batchStart = 0
  /\ rowIdx = 0
  /\ embeddingResponse = <<>>
  /\ runs = <<>>

ChunkText ==
  /\ job = "chunk"
  /\ pieces' = chunkText(pdfText, MaxChars)
  /\ job' = "chunked"
  /\ UNCHANGED <<postVars, concVars, clientVars, parseVars, pdfText, store, selected, batchStart, rowIdx,
                 embeddingResponse, runs>>

SpecChunk == InitChunk /\ [][ChunkText]_vars

\* ------------------------------------------------- import and backfill
NoEmbedding == [isNull |-> TRUE, of |-> <<>>]

\* the vector the embeddings service returns for an input
Embed(content) == [isNull |-> FALSE, of |-> content]

Row(id, content, embedding) ==
  [id |-> id, content |-> content, source |-> "Bidline Rules Feb 2025",
   section |-> "", page |-> "", embedding |-> embedding]

\* list.slice(i, i + batchSize)
Batch(list, i) ==
  SubSeq(list, i + 1, IF i + BatchSize < Len(list) THEN i + BatchSize ELSE Len(list))

\* the response of embeddings.create({input}): one vector per input, in order
EmbeddingsOf(inputs) == [j \in 1..Len(inputs) |-> Embed(inputs[j])]

\* batch.map((content, j) => ({content, ..., embedding: data[j].embedding}))
\* inserted with the ids the table assigns
InsertedRows(table, batch, response) ==
  [j \in 1..Len(batch) |-> Row(Len(table) + j, batch[j], response[j])]

\* .select("id, content").is("embedding", null)
NullEmbeddingRows(table) ==
  LET nulls == SelectSeq(table, LAMBDA r : r.embedding.isNull)
  IN  [k \in 1..Len(nulls) |-> [id |-> nulls[k].id, content |-> nulls[k].content]]

\* .update({ embedding }).eq("id", id)
UpdateEmbedding(table, id, embedding) ==
  [k \in 1..Len(table) |->
     IF table[k].id = id THEN [table[k] EXCEPT !.embedding = embedding] ELSE table[k]]

\* the script ends: process.exit(1), process.exit(0) or main returning
Exit(script, ok, table) ==
  /\ runs' = Append(runs, [job |-> script, ok |-> ok, store |-> table])
  /\ job' = "idle"

FourParagraphs ==
  <<"a", "b", "a", "b", "NL", "NL", "b", "b", "b", "b", "NL", "NL",
    "a", "a", "a", "a", "NL", "NL", "b", "a", "b", "a">>

Documents == {<<>>, <<"a">>, FourParagraphs}

Stores ==
  {<<>>,
   <<Row(1, <<"a">>, NoEmbedding)>>,
   <<Row(1, <<"a">>, NoEmbedding), Row(2, <<"b">>, Embed(<<"b">>)),
     Row(3, <<"a", "b">>, NoEmbedding), Row(4, <<"b", "a">>, NoEmbedding),
     Row(5, <<"b", "b">>, NoEmbedding)>>}

InitIngest ==
  /\ HandlerIdle
  /\ ConcIdle
  /\ ClientIdle
  /\ job = "idle"
  /\ pdfText \in Documents
  /\ pieces = <<>>
  /\ store \in Stores
  /\ selected = <<>>
  /\ batchStart = 0
  /\ rowIdx = 0
  /\ embeddingResponse = <<>>
  /\ runs = <<>>

\* the import starts: the file is missing or pdfParse throws
ImportReadFails ==
  /\ job = "idle"
  /\ Len(runs) < MaxRuns
  /\ Exit("import", FALSE, store)
  /\ UNCHANGED <<postVars, concVars, clientVars, parseVars, pdfText, pieces, store, selected, batchStart, rowIdx,
                 embeddingResponse>>

\* the import starts: the document is read and chunked
StartImport ==
  /\ job = "idle"
  /\ Len(runs) < MaxRuns
  /\ pieces' = chunkText(pdfText, MaxChars)
  /\ batchStart' = 0
  /\ IF pieces' = <<>>
     THEN Exit("import", TRUE, store)
     ELSE job' = "importEmbedding" /\ UNCHANGED runs
  /\ UNCHANGED <<postVars, concVars, clientVars, parseVars, pdfText, store, selected, rowIdx, embeddingResponse>>

ImportEmbeddingRejects ==
  /\ job = "importEmbedding"
  /\ Exit("import", FALSE, store)
  /\ UNCHANGED <<postVars, concVars, clientVars, parseVars, pdfText, pieces, store, selected, batchStart, rowIdx,
                 embeddingResponse>>

ImportEmbeddingResolves ==
  /\ job = "importEmbedding"
  /\ embeddingResponse' = EmbeddingsOf(Batch(pieces, batchStart))
  /\ job' = "importInsert"
  /\ UNCHANGED <<postVars, concVars, clientVars, parseVars, pdfText, pieces, store, selected, batchStart, rowIdx, runs>>

\* await supabase.from("blr_chunks").insert(rows)
ImportInsertResolves(error) ==
  /\ job = "importInsert"
  /\ IF error
     THEN /\ Exit("import", FALSE, store)
          /\ UNCHANGED <<store, batchStart>>
     ELSE /\ store' = store \o InsertedRows(store, Batch(pieces, batchStart),
                                             embeddingResponse)
          /\ batchStart' = batchStart + BatchSize
          /\ IF batchStart' < Len(pieces)
             THEN job' = "importEmbedding" /\ UNCHANGED runs
             ELSE Exit("import", TRUE, store')
  /\ UNCHANGED <<postVars, concVars, clientVars, parseVars, pdfText, pieces, selected, rowIdx, embeddingResponse>>

\* the backfill starts: the rows without an embedding are selected
StartBackfill(error) ==
  /\ job = "idle"
  /\ Len(runs) < MaxRuns
  /\ IF error
     THEN Exit("backfill", FALSE, store) /\ UNCHANGED <<selected, batchStart, rowIdx>>
     ELSE /\ selected' = NullEmbeddingRows(store)
          /\ batchStart' = 0
          /\ rowIdx' = 0
          /\ IF selected' = <<>>
             THEN Exit("backfill", TRUE, store)
             ELSE job' = "backfillEmbedding" /\ UNCHANGED runs
  /\ UNCHANGED <<postVars, concVars, clientVars, parseVars, pdfText, pieces, store, embeddingResponse>>

BackfillEmbeddingRejects ==
  /\ job = "backfillEmbedding"
  /\ Exit("backfill", FALSE, store)
  /\ UNCHANGED <<postVars, concVars, clientVars, parseVars, pdfText, pieces, store, selected, batchStart, rowIdx,
                 embeddingResponse>>

BackfillEmbeddingResolves ==
  /\ job = "backfillEmbedding"
  /\ embeddingResponse' =
       EmbeddingsOf([j \in 1..Len(Batch(selected, batchStart)) |->
                       Batch(selected, batchStart)[j].content])
  /\ rowIdx' = 0
  /\ job' = "backfillUpdate"
  /\ UNCHANGED <<postVars, concVars, clientVars, parseVars, pdfText, pieces, store, selected, batchStart, runs>>

\* embeddingResponse.data[j] goes to batch[j]
ResponseIndex_first(j) == 0
ResponseIndex(j) == j

\* await supabase.from("blr_chunks").update({ embedding }).eq("id", row.id)
BackfillUpdateResolves(error) ==
  /\ job = "backfillUpdate"
  /\ IF error
     THEN /\ Exit("backfill", FALSE, store)
          /\ UNCHANGED <<store, batchStart, rowIdx>>
     ELSE LET batch == Batch(selected, batchStart)
          IN  /\ store' = UpdateEmbedding(store, batch[rowIdx + 1].id,
                                            embeddingResponse[ResponseIndex(rowIdx) + 1])
              /\ IF rowIdx + 1 < Len(batch)
                 THEN /\ rowIdx' = rowIdx + 1
                      /\ UNCHANGED <<batchStart, job, runs>>
                 ELSE /\ rowIdx' = 0
                      /\ batchStart' = batchStart + BatchSize
                      /\ IF batchStart' < Len(selected)
                         THEN job' = "backfillEmbedding" /\ UNCHANGED runs
                         ELSE Exit("backfill", TRUE, store')
  /\ UNCHANGED <<postVars, concVars, clientVars, parseVars, pdfText, pieces, selected, embeddingResponse>>

NextIngest ==
  \/ ImportReadFails
  \/ StartImport
  \/ ImportEmbeddingRejects
  \/ ImportEmbeddingResolves
  \/ \E error \in BOOLEAN : ImportInsertResolves(error)
  \/ \E error \in BOOLEAN : StartBackfill(error)
  \/ BackfillEmbeddingRejects
  \/ BackfillEmbeddingResolves
  \/ \E error \in BOOLEAN : BackfillUpdateResolves(error)

SpecIngest == InitIngest /\ [][NextIngest]_vars

\* ------------------------------------------------- concurrent requests
\* the activation record of invocation r: body, query, isFdpQuestion,
\* history, historyText, chunks are declared inside POST, one per invocation
Frame_shared(r) == 1
Frame(r) == r

Locals(r) == frames[Frame(r)]

InFlight(r) == cpc[r] \notin {"idle", "awaitJson", "done"}

\* invocation r takes a step, to position p
Step(r, p) ==
  /\ cpc' = [cpc EXCEPT ![r] = p]
  /\ overlapped' = [overlapped EXCEPT
                      ![r] = @ \/ \E o \in Requests \ {r} : InFlight(o)]

\* invocation r returns its response
Reply(r, resp) ==
  /\ Step(r, "done")
  /\ replies' = [replies EXCEPT ![r] = resp]

ConcBodies ==
  {[isNull |-> FALSE, query |-> JsZero, history |-> [isArray |-> FALSE, items |-> <<>>]],
   [isNull |-> FALSE, query |-> JsString(<<"minimum", "rest">>),
    history |-> [isArray |-> TRUE, items |-> <<NullEntry>>]],
   [isNull |-> FALSE, query |-> JsString(<<"minimum", "rest">>),
    history |-> [isArray |-> FALSE, items |-> <<>>]],
   [isNull |-> FALSE, query |-> JsString(<<"max", "FDP">>),
    history |-> [isArray |-> TRUE,
                 items |-> <<PairEntry(JsString(<<"q1">>), JsSeven)>>]]}

ConcStoreResults ==
  {[error |-> TRUE, isNull |-> TRUE, rows |-> <<>>],
   [error |-> FALSE, isNull |-> FALSE, rows |-> <<>>],
   [error |-> FALSE, isNull |-> FALSE, rows |-> <<Chunk(50)>>],
   [error |-> FALSE, isNull |-> FALSE, rows |-> <<Chunk(60), Chunk(49)>>]}

ConcCompletions ==
  {[isNull |-> TRUE, content |-> <<>>],
   [isNull |-> FALSE, content |-> <<"X", "NL", "CT", "SP", "High">>]}

ConcErrors == {[status |-> 429, code |-> "insufficient_quota"]}

InitConc ==
  /\ HandlerIdle
  /\ ScriptsIdle
  /\ ClientIdle
  /\ cpc = [r \in Requests |-> "awaitJson"]
  /\ frames = [r \in Requests |-> EmptyFrame]
  /\ given = [r \in Requests |-> NothingGiven]
  /\ replies = [r \in Requests |-> NoReply]
  /\ overlapped = [r \in Requests |-> FALSE]

ConcJsonRejects(r) ==
  /\ cpc[r] = "awaitJson"
  /\ given' = [given EXCEPT ![r].json = Rejected(TypeError)]
  /\ Reply(r, CatchResponse(TypeError))
  /\ UNCHANGED <<postVars, clientVars, parseVars, scriptVars, frames>>

\* lines 19-47 of invocation r
ConcJsonResolves(r, b) ==
  /\ cpc[r] = "awaitJson"
  /\ given' = [given EXCEPT ![r].json = Resolved(b)]
  /\ IF QueryTextThrows(b.query)
     THEN /\ frames' = [frames EXCEPT ![Frame(r)].query = b.query]
          /\ Reply(r, CatchResponse(TypeError))
     ELSE LET fdp == IsFdpText(QueryAsText(b.query))
              hist == IF b.history.isArray THEN b.history.items ELSE <<>>
              locals == [query |-> b.query, isFdpQuestion |-> fdp,
                         historyText |-> <<>>, rows |-> <<>>]
          IN  IF ~b.query.truthy \/ b.query.type # "string"
              THEN /\ frames' = [frames EXCEPT ![Frame(r)] = locals]
                   /\ Reply(r, Failure(400, MissingQuery))
              ELSE IF HistoryThrows(hist)
              THEN /\ frames' = [frames EXCEPT ![Frame(r)] = locals]
                   /\ Reply(r, CatchResponse(TypeError))
              ELSE /\ frames' = [frames EXCEPT ![Frame(r)] =
                                   [locals EXCEPT !.historyText = HistoryText(hist)]]
                   /\ Step(r, "awaitEmbedding")
                   /\ UNCHANGED replies
  /\ UNCHANGED <<postVars, clientVars, parseVars, scriptVars>>

ConcEmbeddingRejects(r, err) ==
  /\ cpc[r] = "awaitEmbedding"
  /\ given' = [given EXCEPT ![r].embedding = Rejected(err)]
  /\ Reply(r, CatchResponse(err))
  /\ UNCHANGED <<postVars, clientVars, parseVars, scriptVars, frames>>

ConcEmbeddingResolves(r) ==
  /\ cpc[r] = "awaitEmbedding"
  /\ given' = [given EXCEPT ![r].embedding = Resolved("embedding")]
  /\ Step(r, "awaitStore")
  /\ UNCHANGED <<postVars, clientVars, parseVars, scriptVars, frames, replies>>

\* lines 57-161 of invocation r
ConcStoreResolves(r, res) ==
  /\ cpc[r] = "awaitStore"
  /\ given' = [given EXCEPT ![r].store = Resolved(res)]
  /\ frames' = [frames EXCEPT ![Frame(r)].rows = res.rows]
  /\ LET decision == StoreDecision(res, Locals(r).isFdpQuestion)
     IN  IF decision = "storeError"
         THEN Reply(r, Failure(500, DatabaseFailed))
         ELSE IF decision = "noCoverage"
         THEN Reply(r, Success(FallbackAnswer(NoCoverageLines), <<>>, "low"))
         ELSE IF decision = "weakCoverage"
         THEN Reply(r, Success(FallbackAnswer(WeakCoverageLines), res.rows, "low"))
         ELSE Step(r, "awaitCompletion") /\ UNCHANGED replies
  /\ UNCHANGED <<postVars, clientVars, parseVars, scriptVars>>

ConcCompletionRejects(r, err) ==
  /\ cpc[r] = "awaitCompletion"
  /\ given' = [given EXCEPT ![r].completion = Rejected(err)]
  /\ Reply(r, CatchResponse(err))
  /\ UNCHANGED <<postVars, clientVars, parseVars, scriptVars, frames>>

\* lines 225-233 of invocation r
ConcCompletionResolves(r, completion) ==
  /\ cpc[r] = "awaitCompletion"
  /\ given' = [given EXCEPT ![r].completion = Resolved(completion)]
  /\ Reply(r, FormatResponse(IF completion.isNull THEN <<>> ELSE completion.content,
                             Locals(r).rows))
  /\ UNCHANGED <<postVars, clientVars, parseVars, scriptVars, frames>>

NextConc ==
  \E r \in Requests :
    \/ ConcJsonRejects(r)
    \/ \E b \in ConcBodies : ConcJsonResolves(r, b)
    \/ \E err \in ConcErrors : ConcEmbeddingRejects(r, err)
    \/ ConcEmbeddingResolves(r)
    \/ \E res \in ConcStoreResults : ConcStoreResolves(r, res)
    \/ \E err \in ConcErrors : ConcCompletionRejects(r, err)
    \/ \E completion \in ConcCompletions : ConcCompletionResolves(r, completion)

SpecConc == InitConc /\ [][NextConc]_vars

\* ------------------------------------------------------------- the page
\* what can be typed into the question box, and the follow-up suggestions
TypedTexts == {<<"SP">>, <<"SP", "q1", "SP">>, <<"q2">>}
NoOverride == [given |-> FALSE, text |-> <<>>]
Overrides == {NoOverride, [given |-> TRUE, text |-> <<"q2">>]}

NoFeedback == "null"
NetworkError == <<"Network error talking to BidlineBuddy.">>
SomethingWentWrong ==
  <<"Something went wrong talking to BidlineBuddy. Please try again.">>

\* how a fetch and the res.json() after it can end: the fetch rejects, the
\* body is not JSON, or data arrives with res.ok, data.error, data.answer
\* and data.confidenceTag
Outcome(kind, ok, err, answer, tag) ==
  [kind |-> kind, ok |-> ok, error |-> err, answer |-> answer, tag |-> tag]

Outcomes ==
  { Outcome("network", FALSE, <<>>, <<>>, ""),
    Outcome("notJson", TRUE, <<>>, <<>>, ""),
    Outcome("json", FALSE, <<MissingQuery>>, <<>>, ""),
    Outcome("json", FALSE, <<>>, <<>>, ""),
    Outcome("json", TRUE, <<>>, <<"a1">>, "High"),
    Outcome("json", TRUE, <<>>, <<"a2">>, "unknown") }

\* the tag of a new entry: lines 354-363
ClientTag(tag) ==
  IF ToLowerCase(tag) \in {"high", "medium", "low"} THEN ToLowerCase(tag)
  ELSE "unknown"

\* history.map((h) => ({question: h.question, answer: h.answer}))
CompactHistory_latest(h) ==
  [i \in 1..(IF h = <<>> THEN 0 ELSE 1) |->
     [question |-> h[Len(h)].question, answer |-> h[Len(h)].answer]]
CompactHistory(h) ==
  [i \in 1..Len(h) |-> [question |-> h[i].question, answer |-> h[i].answer]]

\* the request body as the handler parses it
BodyOf(req) ==
  [isNull |-> FALSE, query |-> JsString(req.query),
   history |-> [isArray |-> TRUE,
                items |-> [i \in 1..Len(req.history) |->
                             PairEntry(JsString(req.history[i].question),
                                       JsString(req.history[i].answer))]]]

\* if ((!question.trim() && !overrideQuestion) || loading) return
Blocked_ignoresLoading(q, override, busy) == Trim(q) = <<>> /\ ~override.given
Blocked(q, override, busy) == (Trim(q) = <<>> /\ ~override.given) \/ busy

\* (overrideQuestion ?? question).trim()
CurrentQuestion(q, override) == Trim(IF override.given THEN override.text ELSE q)

\* an invocation of POST begins (p = "awaitJson") or is over (p = "idle")
Handler(p) ==
  /\ pc' = p
  /\ body' = NullBody
  /\ query' = Undefined
  /\ isFdpQuestion' = FALSE
  /\ history' = <<>>
  /\ historyText' = <<>>
  /\ chunks' = [isNull |-> TRUE, rows |-> <<>>]
  /\ prompt' = NoPrompt
  /\ raw' = <<>>
  /\ responses' = <<>>
  /\ calls' = <<>>
  /\ failure' = ""
  /\ returnedAt' = ""

InitClient ==
  /\ HandlerIdle
  /\ ScriptsIdle
  /\ ConcIdle
  /\ ClientIdle

\* onChange of the question box, and handleExampleClick
SetQuestion(q) ==
  /\ question' = q
  /\ UNCHANGED <<postVars, scriptVars, concVars, parseVars, clientHistory, loading,
                 clientError, inflight, answered>>

\* ask, up to the fetch: lines 316-337
Ask(override) ==
  /\ ~Blocked(question, override, loading)
  /\ CurrentQuestion(question, override) # <<>>
  /\ Len(clientHistory) <= MaxPairs
  /\ loading' = TRUE
  /\ clientError' = NoError
  /\ inflight' = Append(inflight, [query |-> CurrentQuestion(question, override),
                                   history |-> CompactHistory(clientHistory)])
  /\ Handler("awaitJson")
  /\ UNCHANGED <<parseVars, scriptVars, concVars, question, clientHistory, answered>>

\* the handler parses the body of the request and builds historyText
Served ==
  /\ inflight # <<>>
  /\ JsonResolves(BodyOf(inflight[1]))

\* the entry setHistory appends: lines 365-375
NewEntry_sameId(prev, req, outcome) ==
  [id |-> 1, question |-> req.query, answer |-> outcome.answer,
   sources |-> <<>>, feedback |-> NoFeedback,
   confidenceTag |-> ClientTag(outcome.tag)]
NewEntry(prev, req, outcome) ==
  [id |-> Len(prev) + 1, question |-> req.query, answer |-> outcome.answer,
   sources |-> <<>>, feedback |-> NoFeedback,
   confidenceTag |-> ClientTag(outcome.tag)]

\* ask, from the fetch on: lines 339-384
Completes(i, outcome) ==
  /\ i \in 1..Len(inflight)
  /\ outcome.kind = "json" => pc # "awaitJson"
  /\ (outcome.kind = "json" /\ outcome.ok /\ outcome.error = <<>>)
       => Len(inflight[i].history) < MaxPairs
  /\ inflight' = SubSeq(inflight, 1, i - 1) \o SubSeq(inflight, i + 1, Len(inflight))
  /\ loading' = FALSE
  /\ IF outcome.kind # "json"
     THEN /\ clientError' = NetworkError
          /\ UNCHANGED <<clientHistory, question, answered>>
     ELSE IF ~outcome.ok \/ outcome.error # <<>>
     THEN /\ clientError' = IF outcome.error # <<>> THEN outcome.error
                             ELSE SomethingWentWrong
          /\ UNCHANGED <<clientHistory, question, answered>>
     ELSE /\ clientHistory' = Append(clientHistory,
                                     NewEntry(clientHistory, inflight[i], outcome))
          /\ question' = <<>>
          /\ answered' = Append(answered, [question |-> inflight[i].query,
                                           answer |-> outcome.answer])
          /\ UNCHANGED clientError
  /\ Handler("idle")
  /\ UNCHANGED <<parseVars, scriptVars, concVars>>

\* handleFeedback: lines 406-412
HandleFeedback(id, value) ==
  /\ clientHistory' = [k \in 1..Len(clientHistory) |->
                         IF clientHistory[k].id = id
                         THEN [clientHistory[k] EXCEPT !.feedback = value]
                         ELSE clientHistory[k]]
  /\ UNCHANGED <<postVars, scriptVars, concVars, parseVars, question, loading, clientError,
                 inflight, answered>>

NextClient ==
  \/ \E q \in TypedTexts : SetQuestion(q)
  \/ \E override \in Overrides : Ask(override)
  \/ Served
  \/ \E i \in 1..MaxPairs, outcome \in Outcomes : Completes(i, outcome)

SpecClient == InitClient /\ [][NextClient]_vars

\* the page with its feedback buttons: every answer the same text, one kind
\* of failed fetch, one error response, and q2 asked as a follow-up only
FeedbackOutcomes ==
  {o \in Outcomes : o.answer # <<"a2">> /\ o.kind # "notJson"
                      /\ (o.ok \/ o.error # <<>> \/ o.kind = "network")}

NextFeedback ==
  \/ \E q \in TypedTexts \ {<<"q2">>} : SetQuestion(q)
  \/ \E override \in Overrides : Ask(override)
  \/ Served
  \/ \E i \in 1..MaxPairs, outcome \in FeedbackOutcomes : Completes(i, outcome)
  \/ \E id \in 1..(MaxPairs + 1), value \in {"yes", "no"} : HandleFeedback(id, value)

SpecFeedback == InitClient /\ [][NextFeedback]_vars

\* ----------------------------------------------------------- parseAnswer
\* answer.split(/\r?\n/)
RECURSIVE AnswerLines(_)
AnswerLines(t) ==
  IF \A k \in 1..Len(t) : t[k] # "NL" THEN <<t>>
  ELSE LET k == CHOOSE j \in 1..Len(t) :
                  t[j] = "NL" /\ \A m \in 1..(j - 1) : t[m] # "NL"
       IN  <<SubSeq(t, 1, k - 1)>> \o AnswerLines(SubSeq(t, k + 1, Len(t)))

\* the section a line opens, "" when it is no header: a line is a header when
\* its lower-cased text starts with "1) tl;dr" (H1), "2) what the rules say"
\* (H2), "3) what the rules don't" with a curly (H3) or a straight (H3s)
\* apostrophe, "4) operational steer" (H4) or "4) pragmatic view" (H4p)
HeaderSection_pragmaticOnly(line) ==
  CASE line[1] = "H1" -> "tldr"
    [] line[1] = "H2" -> "rules"
    [] line[1] \in {"H3", "H3s"} -> "gaps"
    [] line[1] = "H4p" -> "pragmatic"
    [] OTHER -> ""
HeaderSection(line) ==
  CASE line[1] = "H1" -> "tldr"
    [] line[1] = "H2" -> "rules"
    [] line[1] \in {"H3", "H3s"} -> "gaps"
    [] line[1] \in {"H4", "H4p"} -> "pragmatic"
    [] OTHER -> ""

\* line.replace(/^-+\s*/, "")
RECURSIVE SkipDashes(_, _)
SkipDashes(line, k) ==
  IF k <= Len(line) /\ line[k] = "DASH" THEN SkipDashes(line, k + 1) ELSE k

StripDashes(line) == SubSeq(line, SkipSpace(line, SkipDashes(line, 1)), Len(line))

\* line.startsWith("-") ? line.replace(/^-+\s*/, "") : line
Item(line) == IF line[1] = "DASH" THEN StripDashes(line) ELSE line

\* the switch on section for a line that is neither empty nor a header
Filed(result, section, line) ==
  CASE section = "tldr" ->
         IF result.tldr = <<>> THEN [result EXCEPT !.tldr = Item(line)] ELSE result
    [] section = "rules" -> [result EXCEPT !.rules = Append(@, Item(line))]
    [] section = "gaps" -> [result EXCEPT !.gaps = Append(@, Item(line))]
    [] section = "pragmatic" -> [result EXCEPT !.pragmatic = Append(@, Item(line))]
    [] OTHER -> result

\* the loop over the trimmed lines, from line i on
RECURSIVE ParseLoop(_, _, _, _)
ParseLoop(lines, i, section, result) ==
  IF i > Len(lines) THEN result
  ELSE LET line == Trim(lines[i])
       IN  IF line = <<>> THEN ParseLoop(lines, i + 1, section, result)
           ELSE IF HeaderSection(line) # ""
           THEN ParseLoop(lines, i + 1, HeaderSection(line), result)
           ELSE ParseLoop(lines, i + 1, section, Filed(result, section, line))

parseAnswer(answer) ==
  LET result == ParseLoop(AnswerLines(answer), 1, "none", NothingParsed)
  IN  IF result.tldr = <<>>
      THEN [result EXCEPT !.tldr = AnswerLines(answer)[1]]
      ELSE result

\* answers in the four-part format: one TL;DR bullet, n2 rule bullets, n3
\* grey-area bullets and n4 steer bullets, the third header with either
\* apostrophe, a blank line between the sections or none, and a first rule
\* bullet that may start with a dash, read like a header or hold spaces
BulletTexts(letter) ==
  [k \in 1..6 |-> <<letter, <<"1", "2", "3", "4", "5", "6">>[k]>>]

OddTexts == {<<"R", "1">>, <<"DASH", "R">>, <<"H3">>, <<"R", "SP", "SP", "R">>}

Section(header, texts, blank) ==
  <<header>> \o [k \in 1..Len(texts) |-> <<"DASH", "SP">> \o texts[k]]
    \o (IF blank THEN << <<>> >> ELSE <<>>)

FormatAnswer(h3, blank, odd, n2, n3, n4) ==
  Trim(JoinLines(
    Section(<<"H1">>, <<<<"T">>>>, blank)
      \o Section(<<"H2">>, <<odd>> \o SubSeq(BulletTexts("R"), 2, n2), blank)
      \o Section(<<h3>>, SubSeq(BulletTexts("G"), 1, n3), blank)
      \o Section(<<"H4">>, SubSeq(BulletTexts("S"), 1, n4), blank)))

FormatAnswers ==
  {FormatAnswer(h3, blank, odd, n2, n3, n4) :
     h3 \in {"H3", "H3s"}, blank \in BOOLEAN, odd \in OddTexts,
     n2 \in 3..6, n3 \in 2..4, n4 \in 2..4}

InitParse ==
  /\ HandlerIdle
  /\ ScriptsIdle
  /\ ConcIdle
  /\ question = <<>>
  /\ clientHistory = <<>>
  /\ loading = FALSE
  /\ clientError = NoError
  /\ inflight = <<>>
  /\ answered = <<>>
  /\ answerText \in FormatAnswers \cup {FallbackAnswer(NoCoverageLines),
                                        FallbackAnswer(WeakCoverageLines)}
  /\ parsed = NothingParsed

ParseAnswer ==
  /\ parsed = NothingParsed
  /\ parsed' = parseAnswer(answerText)
  /\ UNCHANGED <<postVars, scriptVars, concVars, clientVars, answerText>>

SpecParse == InitParse /\ [][ParseAnswer]_vars

\* ------------------------------------------------------------ vocabulary
Issued(svc) == \E i \in 1..Len(calls) : calls[i].svc = svc
TimesIssued(svc) == Cardinality({i \in 1..Len(calls) : calls[i].svc = svc})

\* the store query of this request has completed without error
StoreSucceeded == Issued("search") /\ pc # "awaitStore" /\ failure # "store"

\* the canned answers as the caller is to see them: every line up to the
\* last bullet, without the blank line and the tag line that follow
NoCoverageVisible == JoinLines(SubSeq(NoCoverageLines, 1, 11))
WeakCoverageVisible == JoinLines(SubSeq(WeakCoverageLines, 1, 13))

\* the threshold the claims name: 0.5 for duty-time queries, 0.6 otherwise
ClaimedThreshold == IF isFdpQuestion THEN 50 ELSE 60

\* every numeric similarity of the retrieved rows is below the threshold
AllBelowThreshold ==
  \A i \in 1..Len(chunks.rows) :
    chunks.rows[i].similarity = NoSim \/ chunks.rows[i].similarity < ClaimedThreshold

\* some retrieved row reaches the threshold
SomeAtOrAboveThreshold ==
  \E i \in 1..Len(chunks.rows) :
    chunks.rows[i].similarity # NoSim /\ chunks.rows[i].similarity >= ClaimedThreshold

\* ------------------------------------------------------------------ claims
\* C1: when the store lookup of a valid query succeeds and returns no chunks
\* (null or an empty list), the handler answers with the canned no-coverage
\* answer, confidenceTag "low" and chunks = [], and never calls the generator.
C1_NoCoverage ==
  (StoreSucceeded /\ (chunks.isNull \/ chunks.rows = <<>>)) =>
    /\ pc = "done"
    /\ responses = <<Success(NoCoverageVisible, <<>>, "low")>>
    /\ ~Issued("generate")

C1_Witness ==
  /\ pc = "done" /\ returnedAt = "noCoverage" /\ chunks.isNull
  /\ query = JsString(<<"minimum", "rest">>)

\* C2: when the store returns a non-empty list whose maximum similarity is
\* strictly below the effective-answer threshold, the handler answers with the
\* canned weak-coverage answer and confidenceTag "low" without calling the
\* generator; no generator call is ever issued on evidence below threshold.
C2_WeakCoverage ==
  /\ (StoreSucceeded /\ chunks.rows # <<>> /\ AllBelowThreshold) =>
       /\ pc = "done"
       /\ responses = <<Success(WeakCoverageVisible, chunks.rows, "low")>>
       /\ ~Issued("generate")
  /\ Issued("generate") => (chunks.rows # <<>> /\ ~AllBelowThreshold)

C2_Witness ==
  /\ pc = "done" /\ returnedAt = "weakCoverage" /\ ~isFdpQuestion
  /\ chunks.rows = <<Chunk(49), Chunk(50)>>

\* C3: when the store returns a non-empty list whose maximum similarity is at
\* or above the effective-answer threshold (equality included), the generator
\* is called exactly once and neither canned answer is returned.
C3_Qualifying ==
  (StoreSucceeded /\ chunks.rows # <<>> /\ SomeAtOrAboveThreshold) =>
    /\ TimesIssued("generate") = 1
    /\ prompt = BuildPrompt(historyText, chunks.rows, query.text)
    /\ returnedAt \notin {"noCoverage", "weakCoverage"}
    /\ \A i \in 1..Len(responses) :
         "answer" \in DOMAIN responses[i] =>
            responses[i].answer \notin {NoCoverageVisible, WeakCoverageVisible}

C3_Witness ==
  /\ pc = "done" /\ returnedAt = "generated" /\ ~isFdpQuestion
  /\ MaxSim(chunks.rows) = 60 /\ TimesIssued("generate") = 1

\* C4: a parsed body whose query is missing, empty or not a string is answered
\* with status 400 and {error: "Missing query"}, and no external call is made.
C4_MissingQuery ==
  (pc = "done" /\ failure # "json" /\ ~(query.type = "string" /\ query.text # <<>>)) =>
    /\ responses = <<Failure(400, MissingQuery)>>
    /\ calls = <<>>

\* C5: the answer of every successful response, on the two fallback paths and
\* on the generated path, never contains the text "Confidence tag:".
C5_NoTagLeak ==
  \A i \in 1..Len(responses) :
    "answer" \in DOMAIN responses[i] =>
      \A k \in 1..Len(responses[i].answer) : responses[i].answer[k] # "CT"

\* the text ends with the line  Confidence tag: <High|Medium|Low>
EndsWithTagLine(text) ==
  /\ Len(text) >= 3
  /\ SubSeq(text, Len(text) - 2, Len(text) - 1) = <<"CT", "SP">>
  /\ text[Len(text)] \in {"High", "Medium", "Low"}
  /\ Len(text) > 3 => text[Len(text) - 3] = "NL"

LowerCased(word) ==
  CASE word = "High" -> "high" [] word = "Medium" -> "medium" [] word = "Low" -> "low"

\* C6: when the generator's text ends with the line `Confidence tag: X`, X one
\* of High, Medium, Low, whatever precedes that line, the response's
\* confidenceTag is the lower-cased X and its answer is the text without that
\* line, trimmed.
C6_TerminalTag ==
  (pc = "formatted" \/ (pc = "done" /\ returnedAt = "generated")) =>
    (EndsWithTagLine(raw) =>
       /\ responses[1].confidenceTag = LowerCased(raw[Len(raw)])
       /\ responses[1].answer = Trim(SubSeq(raw, 1, Len(raw) - 3)))

\* the text has a line that reads  Confidence tag: <High|Medium|Low>  and
\* nothing else (surrounding blanks aside)
HasExactTagLine(text) ==
  \E i \in 1..Len(text) : \E j \in i..Len(text) :
    /\ i = 1 \/ text[i - 1] = "NL"
    /\ j = Len(text) \/ text[j + 1] = "NL"
    /\ \A k \in i..j : text[k] # "NL"
    /\ Len(Trim(SubSeq(text, i, j))) >= 2
    /\ Trim(SubSeq(text, i, j))[1] = "CT"
    /\ Trim(Tail(Trim(SubSeq(text, i, j)))) \in {<<"High">>, <<"Medium">>, <<"Low">>}

\* C7: a generator text without a confidence line, or whose confidence line
\* carries anything but exactly High, Medium or Low, gets confidenceTag
\* "unknown"; every successful response carries one of the four tags.
C7_UnknownTag ==
  (pc = "formatted" \/ (pc = "done" /\ returnedAt = "generated")) =>
    /\ ~HasExactTagLine(raw) => responses[1].confidenceTag = "unknown"
    /\ responses[1].confidenceTag \in {"high", "medium", "low", "unknown"}

WellFormed(r) ==
  \/ /\ DOMAIN r = {"status", "answer", "chunks", "confidenceTag"}
     /\ r.status = 200
  \/ /\ DOMAIN r = {"status", "error"}
     /\ r.status \in {400, 500}
     /\ r.error \in STRING

\* C8: every invocation ends with exactly one response, a success envelope or
\* an error envelope with status 400 or 500; no failure of the body parsing,
\* the embedding call, the store query or the generator call escapes the
\* handler.  The handler is either waiting for a call that can still settle
\* or has returned, and it has returned exactly when one response exists.
C8_ExactlyOneResponse ==
  /\ pc \in {"awaitJson", "awaitEmbedding", "awaitStore", "awaitCompletion", "done"}
  /\ pc # "done" => ENABLED Next
  /\ Len(responses) <= 1
  /\ pc = "done" <=> Len(responses) = 1
  /\ \A i \in 1..Len(responses) : WellFormed(responses[i])

C8_Witness ==
  /\ pc = "done" /\ failure = "generate" /\ Len(responses) = 1
  /\ responses[1] = Failure(500, UnexpectedError)

\* C9: a failure of the embedding call or of the store query ends in a
\* status-500 error response, never in a canned low-confidence answer; the
\* canned answers are returned only after the store query completed without
\* error.
C9_FailuresAreErrors ==
  /\ failure \in {"embed", "store"} =>
       /\ pc = "done"
       /\ Len(responses) = 1
       /\ DOMAIN responses[1] = {"status", "error"}
       /\ responses[1].status = 500
  /\ (\/ returnedAt \in {"noCoverage", "weakCoverage"}
      \/ \E i \in 1..Len(responses) :
           /\ "answer" \in DOMAIN responses[i]
           /\ responses[i].answer \in {NoCoverageVisible, WeakCoverageVisible})
       => (StoreSucceeded /\ failure = "")

C9_Witness ==
  /\ pc = "done" /\ failure = "store"
  /\ responses = <<Failure(500, DatabaseFailed)>>

\* C10: every failure of the generator call gives a status-500 response whose
\* message differs from the generic unexpected-failure message and from the
\* store-failure message, and failures of other components never give the
\* generator's message.
C10_GeneratorMessage ==
  pc = "done" =>
    /\ failure = "generate" =>
         /\ responses[1].status = 500
         /\ responses[1].error \notin {UnexpectedError, DatabaseFailed}
    /\ (failure \notin {"", "generate"}) => responses[1].error # QuotaExhausted


\* the service names of the calls issued so far, in order
Services == [i \in 1..Len(calls) |-> calls[i].svc]

ValidQuery == query.type = "string" /\ query.text # <<>>

\* C11: within one request with a valid query the external calls are issued in
\* the order embed, search, generate: exactly one embedding call, the store
\* query at most once and only after the embedding succeeded, the generator at
\* most once and only after the store query succeeded, nothing retried.
C11_CallOrder ==
  /\ \E n \in 0..3 : Services = SubSeq(<<"embed", "search", "generate">>, 1, n)
  /\ Issued("search") => failure # "embed"
  /\ Issued("generate") => StoreSucceeded
  /\ (pc = "done" /\ failure # "json" /\ ValidQuery) => TimesIssued("embed") = 1

\* text.split("\n")
RECURSIVE SplitLines(_)
SplitLines(text) ==
  IF \A k \in 1..Len(text) : text[k] # "NL" THEN <<text>>
  ELSE LET k == CHOOSE j \in 1..Len(text) :
                  text[j] = "NL" /\ \A m \in 1..(j - 1) : text[m] # "NL"
       IN  <<SubSeq(text, 1, k - 1)>> \o SplitLines(SubSeq(text, k + 1, Len(text)))

Headers == <<"H1", "H2", "H3", "H4">>
IsHeader(t) == t \in {"H1", "H2", "H3", "H4"}

\* the section headers of a text, in the order they occur
HeadersOf(text) == SelectSeq(text, IsHeader)

\* the header that line i of lines stands under ("" before the first header)
RECURSIVE SectionOf(_, _)
SectionOf(lines, i) ==
  IF i = 0 THEN ""
  ELSE IF lines[i] # <<>> /\ IsHeader(lines[i][1]) THEN lines[i][1]
  ELSE SectionOf(lines, i - 1)

\* how many bullet lines of text stand under header h
BulletsUnder(text, h) ==
  LET lines == SplitLines(text)
  IN  Cardinality({i \in 1..Len(lines) :
                     /\ lines[i] # <<>>
                     /\ lines[i][1] = "DASH"
                     /\ SectionOf(lines, i) = h})

\* the answer text format of the interface: four headers in order, one
\* TL;DR bullet, 3-6 rule bullets, 2-4 grey-area bullets, 2-4 steer bullets
ConformsToFormat(text) ==
  /\ HeadersOf(text) = Headers
  /\ BulletsUnder(text, "H1") = 1
  /\ BulletsUnder(text, "H2") \in 3..6
  /\ BulletsUnder(text, "H3") \in 2..4
  /\ BulletsUnder(text, "H4") \in 2..4

\* C12: both canned answers, as returned, have the four headers in order with
\* exactly one TL;DR bullet, 3 to 6 rule bullets, 2 to 4 grey-area bullets and
\* 2 to 4 steer bullets, and are returned with confidenceTag "low".
C12_FallbackFormat ==
  returnedAt \in {"noCoverage", "weakCoverage"} =>
    /\ ConformsToFormat(responses[1].answer)
    /\ responses[1].confidenceTag = "low"

\* C17: on the generated path and on the weak-coverage path the response's
\* chunks are the rows the store returned, same length and order; on the
\* no-coverage path they are the empty list.
C17_ChunksUnchanged ==
  /\ returnedAt \in {"generated", "weakCoverage"} => responses[1].chunks = chunks.rows
  /\ returnedAt = "noCoverage" => responses[1].chunks = <<>>

C17_Witness ==
  /\ returnedAt = "generated"
  /\ responses[1].chunks = <<Chunk(NoSim), Chunk(60)>>


\* C13: every answer returned on the generated path, whatever the generator
\* produced, splits on the section headers into exactly the four sections
\* summary, rule citations, gaps, practical guidance, in that order.
C13_FourSections ==
  (pc = "formatted" \/ (pc = "done" /\ returnedAt = "generated")) =>
    HeadersOf(responses[1].answer) = Headers


\* C14: prompt assembly labels the i-th chunk of the list with [i], i = 1..n,
\* in list order, whatever the chunk's content and metadata are.
C14_PositionalLabels ==
  pc = "assembled" =>
    /\ Len(prompt.contextText) = Len(chunks.rows)
    /\ \A i \in 1..Len(chunks.rows) :
         LET label == prompt.contextText[i].label
         IN  /\ label[1] = [kind |-> "index", n |-> i, text |-> ""]
             /\ \A k \in 2..Len(label) : label[k].kind # "index"

C14_Witness ==
  /\ pc = "assembled" /\ Len(chunks.rows) = 2
  /\ chunks.rows[1].source = "" /\ chunks.rows[2].source # ""
  /\ chunks.rows[1].content # chunks.rows[2].content

\* C15: in the prompt a content longer than 1200 characters is cut to its
\* first 1200 characters followed by the truncation marker, a content of 1200
\* characters or fewer is included unchanged without marker, and a content
\* that is not a string is rendered as empty text.
C15_ContentCap ==
  pc = "assembled" =>
    \A i \in 1..Len(chunks.rows) :
      LET c == chunks.rows[i].content
          t == prompt.contextText[i].content
      IN  /\ t.len <= 1200
          /\ ~c.isString => (t.len = 0 /\ ~t.marker)
          /\ (c.isString /\ c.len > 1200) => (t.id = c.id /\ t.len = 1200 /\ t.marker)
          /\ (c.isString /\ c.len <= 1200) => (t.id = c.id /\ t.len = c.len /\ ~t.marker)

C15_Witness ==
  /\ pc = "assembled" /\ Len(chunks.rows) = 2
  /\ chunks.rows[1].content = TextOf("t2", 1201)
  /\ chunks.rows[2].content = TextOf("t1", 1200)
  /\ prompt.contextText[1].content.marker /\ ~prompt.contextText[2].content.marker


\* the history list as the request supplied it ([] when it is no array)
SuppliedHistory == IF body.history.isArray THEN body.history.items ELSE <<>>

\* C16: the prompt holds at most 3 prior question/answer pairs: the last
\* min(3, length) entries of the supplied history in their original order;
\* an absent, empty or non-array history adds no conversation prefix.
C16_HistoryWindow ==
  pc = "awaitCompletion" =>
    LET n == Len(SuppliedHistory)
        m == IF n < 3 THEN n ELSE 3
    IN  /\ Len(prompt.historyPrefix) = m
        /\ \A k \in 1..m :
             LET h == SuppliedHistory[n - m + k]
                 line == prompt.historyPrefix[k]
             IN  /\ line.n = k
                 /\ h.question.type = "string" => line.q = h.question.text
                 /\ h.answer.type = "string" => line.a = h.answer.text

C16_Witness ==
  /\ pc = "awaitCompletion"
  /\ Len(SuppliedHistory) = 4
  /\ SuppliedHistory[1] = NullEntry
  /\ SuppliedHistory[2] # SuppliedHistory[3]
  /\ Len(prompt.historyPrefix) = 3


\* the pieces put end to end
RECURSIVE Flatten(_)
Flatten(ss) == IF ss = <<>> THEN <<>> ELSE Head(ss) \o Flatten(Tail(ss))

\* C19: every chunk chunkText produces is non-empty and at most maxChars
\* long, and the slices of a single paragraph put end to end are the paragraph.
C19_ChunkBound ==
  job = "chunked" =>
    /\ \A i \in 1..Len(pieces) : Len(pieces[i]) \in 1..MaxChars
    /\ Len(Paragraphs(pdfText)) = 1 => Flatten(pieces) = Paragraphs(pdfText)[1]

C19_Witness ==
  /\ job = "chunked"
  /\ pdfText = <<"a", "NL", "NL", "b", "NL", "NL", "a">>
  /\ pieces = << <<"a", "NL", "NL", "b">>, <<"a">> >>


\* C20: a second run of the import, or of the backfill, right after a
\* successful run of the same script, and itself successful, leaves the table
\* as the first run left it.
C20_Idempotent ==
  \A k \in 1..(Len(runs) - 1) :
    (runs[k].job = runs[k + 1].job /\ runs[k].ok /\ runs[k + 1].ok)
      => runs[k + 1].store = runs[k].store


\* the response of one request handled with nothing else in flight, from its
\* body and the results of its own external calls
Alone(g) ==
  IF g.json.state = "rejected" THEN CatchResponse(TypeError)
  ELSE LET b == g.json.value
       IN  IF QueryTextThrows(b.query) THEN CatchResponse(TypeError)
           ELSE IF ~b.query.truthy \/ b.query.type # "string"
           THEN Failure(400, MissingQuery)
           ELSE IF b.history.isArray /\ HistoryThrows(b.history.items)
           THEN CatchResponse(TypeError)
           ELSE IF g.embedding.state = "rejected" THEN CatchResponse(g.embedding.err)
           ELSE LET res == g.store.value
                    decision == StoreDecision(res, IsFdpText(QueryAsText(b.query)))
                IN  IF decision = "storeError" THEN Failure(500, DatabaseFailed)
                    ELSE IF decision = "noCoverage"
                    THEN Success(FallbackAnswer(NoCoverageLines), <<>>, "low")
                    ELSE IF decision = "weakCoverage"
                    THEN Success(FallbackAnswer(WeakCoverageLines), res.rows, "low")
                    ELSE IF g.completion.state = "pending" THEN NoReply
                    ELSE IF g.completion.state = "rejected"
                    THEN CatchResponse(g.completion.err)
                    ELSE FormatResponse(IF g.completion.value.isNull THEN <<>>
                                        ELSE g.completion.value.content, res.rows)

\* C18: whatever the interleaving of the steps of the requests in flight, the
\* response of each request that has returned is the response it would get
\* alone with the same body and the same results of its external calls.
C18_NoSharedState ==
  \A r \in Requests : cpc[r] = "done" => replies[r] = Alone(given[r])

C18_Witness ==
  /\ \A r \in Requests : cpc[r] = "done" /\ overlapped[r]
  /\ replies[1].status = 200 /\ replies[1].confidenceTag = "high"
  /\ replies[2].status = 200 /\ replies[2].confidenceTag = "low"
  /\ given[1].json.value.query.text = <<"max", "FDP">>
  /\ given[2].json.value.query.text = <<"minimum", "rest">>
  /\ given[1].store.value = given[2].store.value


\* a step of the backfill script
BackfillStep ==
  \/ job \in {"backfillEmbedding", "backfillUpdate"}
  \/ /\ job = "idle"
     /\ \/ job' = "backfillEmbedding"
        \/ Len(runs') > Len(runs) /\ runs'[Len(runs')].job = "backfill"

SelectedIds == {selected[k].id : k \in 1..Len(selected)}

\* C21: a step of the backfill adds and removes no row; a row it changes was
\* selected, had a null embedding, and differs afterwards only in its
\* embedding, which is the one computed from the row's own content; when a
\* run ends without error every selected row has such an embedding.
C21_BackfillFrame ==
  [][BackfillStep =>
       /\ Len(store') = Len(store)
       /\ \A k \in 1..Len(store) :
            store'[k] # store[k] =>
              /\ store[k].id \in SelectedIds
              /\ store[k].embedding.isNull
              /\ store'[k] = [store[k] EXCEPT !.embedding = Embed(store[k].content)]
       /\ (Len(runs') > Len(runs) /\ runs'[Len(runs')].ok) =>
            \A k \in 1..Len(store') :
              store'[k].id \in {selected'[n].id : n \in 1..Len(selected')} =>
                store'[k].embedding = Embed(store'[k].content)]_vars

C21_Witness ==
  /\ job = "idle"
  /\ runs # <<>> /\ runs[Len(runs)].job = "backfill" /\ runs[Len(runs)].ok
  /\ Len(selected) = 4
  /\ store[2].embedding = Embed(<<"b">>)
  /\ store[5] = Row(5, <<"b", "b">>, Embed(<<"b", "b">>))


\* C22: a request whose body is not JSON, or whose query is missing, empty or
\* not a string, is answered with a status between 400 and 499, and no
\* external call is made for it.
C22_InvalidInput ==
  (pc = "done" /\ (failure = "json" \/ ~ValidQuery)) =>
    /\ \A i \in 1..Len(responses) : responses[i].status \in 400..499
    /\ calls = <<>>


\* a word without regard to case
Folded(word) ==
  CASE word = "FDP" -> "fdp" [] word = "Flight" -> "flight" [] OTHER -> word

\* does the phrase occur in the query, case aside
Mentions(phrase) ==
  \E i \in 1..(Len(query.text) - Len(phrase) + 1) :
    \A k \in 1..Len(phrase) : Folded(query.text[i + k - 1]) = phrase[k]

DutyTimeQuery ==
  \/ Mentions(<<"fdp">>)
  \/ Mentions(<<"flight", "duty", "period">>)
  \/ Mentions(<<"maximum", "duty">>)

ClaimedSearchThreshold == IF DutyTimeQuery THEN 45 ELSE 55
ClaimedAnswerThreshold == IF DutyTimeQuery THEN 50 ELSE 60

\* C23: once the query is read the category is the keyword match, case aside,
\* and stays so; the store is searched with threshold 0.45 for a duty-time
\* query and 0.55 otherwise, with result cap 10; the answer is generated or
\* withheld at 0.5 and 0.6 respectively; the second threshold is never below
\* the first.
C23_Category ==
  /\ (pc # "awaitJson" /\ ValidQuery) => isFdpQuestion = DutyTimeQuery
  /\ \A i \in 1..Len(calls) :
       calls[i].svc = "search" =>
         /\ calls[i].match_threshold = ClaimedSearchThreshold
         /\ calls[i].match_count = 10
         /\ ClaimedAnswerThreshold >= calls[i].match_threshold
  /\ returnedAt = "weakCoverage" =>
       \A i \in 1..Len(chunks.rows) : chunks.rows[i].similarity < ClaimedAnswerThreshold
  /\ Issued("generate") =>
       \E i \in 1..Len(chunks.rows) : chunks.rows[i].similarity >= ClaimedAnswerThreshold

C23_Witness ==
  /\ pc = "awaitCompletion"
  /\ query.text = <<"Flight", "duty", "period">>
  /\ chunks.rows = <<Chunk(50)>>
  /\ calls[2] = Call("search", 45, 10)


\* C24: a non-empty list in which no chunk has a numeric similarity is
\* answered with the weak-coverage answer and confidenceTag "low" without a
\* generator call; the generator is called exactly when some chunk with a
\* numeric similarity reaches the threshold, whatever the other chunks carry.
C24_NoNumericSimilarity ==
  /\ (StoreSucceeded /\ chunks.rows # <<>>
        /\ \A i \in 1..Len(chunks.rows) : chunks.rows[i].similarity = NoSim) =>
       /\ pc = "done"
       /\ returnedAt = "weakCoverage"
       /\ responses = <<Success(WeakCoverageVisible, chunks.rows, "low")>>
       /\ ~Issued("generate")
  /\ (StoreSucceeded /\ chunks.rows # <<>>) =>
       (Issued("generate") <=> SomeAtOrAboveThreshold)

C24_Witness ==
  /\ pc = "done" /\ returnedAt = "weakCoverage"
  /\ chunks.rows = <<Chunk(NoSim), Chunk(NoSim)>>
  /\ responses[1].confidenceTag = "low"


\* C25: for a valid query no history, whatever its shape, ends the request in
\* an error: the embedding call is issued, a history that is not an array adds
\* nothing to the prompt, and every entry among the last three, null included,
\* is rendered, with the placeholder where question or answer is not a string.
C25_MalformedHistory ==
  (pc # "awaitJson" /\ failure # "json" /\ ValidQuery) =>
    /\ failure # "history"
    /\ Issued("embed")
    /\ Len(historyText) = Len(Recent(SuppliedHistory))


\* the paragraphs, or slices, a chunk holds: its text between "\n\n" joins
UnitsOf(piece) == SplitParagraphs(piece)

RECURSIVE Units(_)
Units(ps) == IF ps = <<>> THEN <<>> ELSE UnitsOf(Head(ps)) \o Units(Tail(ps))

\* a paragraph as the chunks are to carry it: whole when it fits, otherwise
\* its consecutive slices of MaxChars characters, the last one shorter
Carried(p) ==
  IF Len(p) <= MaxChars THEN <<p>>
  ELSE [k \in 1..((Len(p) + MaxChars - 1) \div MaxChars) |->
          SubSeq(p, (k - 1) * MaxChars + 1,
                 IF k * MaxChars < Len(p) THEN k * MaxChars ELSE Len(p))]

RECURSIVE CarriedAll(_)
CarriedAll(ps) == IF ps = <<>> THEN <<>> ELSE Carried(Head(ps)) \o CarriedAll(Tail(ps))

LastThree(pairs) ==
  LET n == Len(pairs)
      m == IF n < 3 THEN n ELSE 3
  IN  [i \in 1..m |-> [n |-> i, q |-> pairs[n - m + i].question,
                       a |-> pairs[n - m + i].answer]]

\* C26: the history sent with a request is the list of the pairs answered
\* successfully before it, oldest first, asks that failed leaving no trace in
\* it; the handler renders every one of the last min(3, n) of them, and only
\* those, into the prompt's conversation prefix.
C26_EndToEndHistory ==
  /\ \A i \in 1..Len(inflight) : inflight[i].history = answered
  /\ (inflight # <<>> /\ pc = "awaitEmbedding") =>
       /\ failure = ""
       /\ historyText = LastThree(answered)

C26_Witness ==
  /\ pc = "awaitEmbedding"
  /\ Len(inflight) = 1
  /\ Len(answered) = 4
  /\ answered[1] = [question |-> <<"q1">>, answer |-> <<"a2">>]
  /\ answered[2] = [question |-> <<"q2">>, answer |-> <<"a1">>]
  /\ Len(historyText) = 3
  /\ historyText[1].q = <<"q2">>

\* C27: loading is true exactly when one request is outstanding; there are
\* never two; every request carries a non-empty trimmed question.
C27_Loading ==
  /\ Len(inflight) <= 1
  /\ loading <=> Len(inflight) = 1
  /\ \A i \in 1..Len(inflight) :
       inflight[i].query # <<>> /\ Trim(inflight[i].query) = inflight[i].query

C27_Witness ==
  /\ loading
  /\ inflight # <<>> /\ inflight[1].query = <<"q2">>
  /\ question = <<"SP">>
  /\ Len(answered) = 2

\* a request completes on this step, with or without an answer
CompletionStep == Len(inflight') < Len(inflight)
SuccessStep == CompletionStep /\ answered' # answered

\* two entries alike in everything but the feedback
SameButFeedback(e, f) == [e EXCEPT !.feedback = f.feedback] = f

\* C28: the history changes only by a successful response appending one
\* entry, or by a feedback click changing the feedback of at most one entry;
\* a request that fails leaves history and the typed question as they were
\* and sets the error message; the ids are 1..n in order at all times.
C28_AppendOnly ==
  [][/\ \A k \in 1..Len(clientHistory') : clientHistory'[k].id = k
     /\ SuccessStep =>
          /\ Len(clientHistory') = Len(clientHistory) + 1
          /\ SubSeq(clientHistory', 1, Len(clientHistory)) = clientHistory
     /\ (CompletionStep /\ ~SuccessStep) =>
          /\ clientHistory' = clientHistory
          /\ question' = question
          /\ clientError' # NoError
     /\ ~CompletionStep =>
          /\ Len(clientHistory') = Len(clientHistory)
          /\ \A k \in 1..Len(clientHistory) :
               SameButFeedback(clientHistory[k], clientHistory'[k])
          /\ Cardinality({k \in 1..Len(clientHistory) :
                            clientHistory'[k] # clientHistory[k]}) <= 1]_vars

C28_Witness ==
  /\ Len(clientHistory) = 3
  /\ clientHistory[1].feedback = NoFeedback
  /\ clientHistory[2].feedback = "no"
  /\ clientHistory[3].feedback = "yes"
  /\ clientError = NetworkError
  /\ question = <<"SP", "q1", "SP">>


\* the section a header line of the format names
NamedSection(token) ==
  CASE token = "H1" -> "tldr"
    [] token = "H2" -> "rules"
    [] token \in {"H3", "H3s"} -> "gaps"
    [] token = "H4" -> "pragmatic"
    [] OTHER -> ""

\* the section line i of lines stands in: that of the nearest header above it
RECURSIVE StandsIn(_, _)
StandsIn(lines, i) ==
  IF i = 0 THEN ""
  ELSE IF lines[i] # <<>> /\ NamedSection(lines[i][1]) # ""
  THEN NamedSection(lines[i][1])
  ELSE StandsIn(lines, i - 1)

\* the bullets of a text that stand in a section, in order, each without its
\* leading "- "
BulletsOf(t, section) ==
  LET lines == SplitLines(t)
      numbered == [i \in 1..Len(lines) |-> [at |-> i, line |-> lines[i]]]
      mine == SelectSeq(numbered,
                LAMBDA l : /\ l.line # <<>>
                           /\ l.line[1] = "DASH"
                           /\ StandsIn(lines, l.at) = section)
  IN  [k \in 1..Len(mine) |-> SubSeq(mine[k].line, 3, Len(mine[k].line))]

\* C29: for each canned answer and each answer in the four-part format,
\* parseAnswer returns a non-empty tldr, which is the TL;DR bullet, and
\* non-empty rules, gaps and pragmatic lists, which are the bullets of their
\* sections in order, each once, each without its leading dash.
C29_ParseAnswer ==
  parsed # NothingParsed =>
    /\ parsed.tldr # <<>> /\ <<parsed.tldr>> = BulletsOf(answerText, "tldr")
    /\ parsed.rules # <<>> /\ parsed.rules = BulletsOf(answerText, "rules")
    /\ parsed.gaps # <<>> /\ parsed.gaps = BulletsOf(answerText, "gaps")
    /\ parsed.pragmatic # <<>> /\ parsed.pragmatic = BulletsOf(answerText, "pragmatic")

C29_Witness ==
  /\ answerText = FallbackAnswer(WeakCoverageLines)
  /\ parsed.tldr = <<"WC1">>
  /\ parsed.rules = << <<"WC2">> >>
  /\ parsed.gaps = << <<"WC3">>, <<"WC4">> >>
  /\ parsed.pragmatic = << <<"WC5">>, <<"WC6">> >>

====
